---- MODULE Spec2Model ----
(***************************************************************************)
(* Model of the NUMA-aware zmalloc of Redis-CXL (src/zmalloc.c), built     *)
(* without HAVE_MALLOC_SIZE: every block carries a PREFIX_SIZE header that *)
(* records the requested payload size.                                     *)
(*                                                                         *)
(* The libnuma / libc primitives (numa_available, numa_max_node,           *)
(* numa_all_nodes_ptr, numa_distance, sched_getcpu, numa_node_of_cpu,      *)
(* numa_alloc_onnode, numa_realloc, malloc, realloc, qsort) are the        *)
(* environment: the topology is drawn in Init, the outcome of every        *)
(* allocation primitive is drawn per call.                                 *)
(*                                                                         *)
(* Under Spec, SpecScenario and SpecData one thread calls the facade and a *)
(* call is one step.  SpecAccounting and SpecRace let several threads run  *)
(* the accounting and the lazy initialisation step by step.  used_memory   *)
(* is a size_t: within the bounds no value comes near 2^64, so the counter *)
(* is modelled without wrap-around.                                        *)
(***************************************************************************)
EXTENDS Integers, Sequences, FiniteSets, TLC

\* ------------------------------------------------------------------ bounds
MaxNode == 2        \* node ids of the modelled machines are 0..MaxNode
MaxBlocks == 2      \* at most this many blocks live at once
MaxSize == 2        \* requested payload sizes are 1..MaxSize
NumThreads == 2     \* threads calling the facade at the same time

\* --------------------------------------------------------------- constants
PREFIX_SIZE == 8
NULL == 0
NUMA_POLICY_DEFAULT == 0
NUMA_POLICY_DISTANCE_FIRST == 1
NUMA_POLICY_ROUND_ROBIN == 2
NUMA_POLICY_BALANCED == 3

numa_policy_t == {NUMA_POLICY_DEFAULT, NUMA_POLICY_DISTANCE_FIRST,
                  NUMA_POLICY_ROUND_ROBIN, NUMA_POLICY_BALANCED}

NodeIds == 0..MaxNode
Ptrs == 1..MaxBlocks
Sizes == 1..MaxSize
\* node arguments a caller may pass: negative, in range, above the range
NodeArgs == (-1)..(MaxNode + 1)

VARIABLES
    topo,                       \* the machine: what libnuma / the kernel report
    used_memory,
    zmalloc_thread_safe,
    numa_support_available,
    default_numa_node,
    numa_initialized,
    sorted_nodes_by_distance,   \* << >> stands for the NULL pointer
    num_available_nodes,
    current_numa_policy,
    heap,                       \* Ptrs -> block header and provenance, or NoBlock
    aborted,                    \* abort() was called: the process is gone
    call,                       \* the facade call that produced this state
    payload,                    \* Ptrs -> the bytes of the block's payload
    pc,                         \* Threads -> where the thread is in its call
    local,                      \* Threads -> the locals of the thread's call
    used_memory_mutex,          \* the thread holding it, or NoThread
    arrays                      \* the int arrays malloc'ed by init_sorted_nodes

vars == <<topo, used_memory, zmalloc_thread_safe, numa_support_available,
          default_numa_node, numa_initialized, sorted_nodes_by_distance,
          num_available_nodes, current_numa_policy, heap, aborted, call,
          payload, pc, local, used_memory_mutex, arrays>>

\* what only the specifications with several threads change
conc == <<pc, local, used_memory_mutex, arrays>>

\* ---------------------------------------------------------------- helpers
\* a live block: the payload size its header records and the primitive family
\* ("numa": numa_alloc_onnode / numa_realloc, "malloc": malloc / realloc) that
\* handed it out
NoBlock == [size |-> -1, origin |-> "none"]
Block(size, origin) == [size |-> size, origin |-> origin]
Live(h) == {p \in Ptrs : h[p] # NoBlock}
FreePtrs(h) == Ptrs \ Live(h)
NewPtr(h) == CHOOSE p \in FreePtrs(h) : \A q \in FreePtrs(h) : p <= q

RECURSIVE SumOver(_, _)
SumOver(S, f) ==
    IF S = {} THEN 0
    ELSE LET x == CHOOSE y \in S : TRUE IN f[x] + SumOver(S \ {x}, f)

Last(s) == s[Len(s)]

\* one call of an allocation primitive: which one, on which node, its outcome
Attempt(prim, node, ok) == [prim |-> prim, node |-> node, ok |-> ok]
\* one call of a release primitive on a block of the given provenance
Release(origin, via) == [origin |-> origin, via |-> via]

\* the record of a facade call: its name, its node / policy argument, its
\* block argument, the allocation and release primitives it called, its
\* result; size is the size argument of a call that has one, 0 otherwise
Call(op, node, ptr, attempts, released, ret) ==
    [op |-> op, node |-> node, ptr |-> ptr, size |-> 0,
     attempts |-> attempts, released |-> released, ret |-> ret]
Sized(c, size) == [c EXCEPT !.size = size]
NoCall == Call("none", -1, NULL, << >>, << >>, 0)

\* ---------------------------------------------------------------- topology
Abs(x) == IF x < 0 THEN -x ELSE x

\* numa_distance(a, b) of the modelled machines: the nodes sit on a line and
\* the cost grows with the hop count, so node 1 is equidistant from 0 and 2.
numa_distance(a, b) == IF a = b THEN 0 ELSE 10 + 10 * Abs(a - b)

\* A machine as the process sees it:
\*   available: result of numa_available() (0 or -1)
\*   max_node:  result of numa_max_node()
\*   all_nodes: numa_all_nodes_ptr
\*   cpu_nodes: the values numa_node_of_cpu(sched_getcpu()) can take while the
\*              thread runs (-1: one of the two lookups failed); a singleton
\*              when the thread stays on one node
Machine(available, max_node, all_nodes, cpu_nodes) ==
    [available |-> available, max_node |-> max_node, all_nodes |-> all_nodes,
     cpu_nodes |-> cpu_nodes]

Topologies ==
    { Machine(-1, MaxNode, NodeIds, {0}),          \* libnuma says: no NUMA
      Machine(0, -1, {}, {-1}),                    \* no node configured
      Machine(0, MaxNode, {}, {0}),                \* no node this process may use
      Machine(0, MaxNode, NodeIds, {1}),           \* thread on node 1
      Machine(0, MaxNode, NodeIds, {-1}),          \* thread's node unknown
      Machine(0, MaxNode, {0, MaxNode}, {0, MaxNode}) }
                                  \* nodes between absent, thread migrates

\* ------------------------------------------------------- node ranking table
\* compare_nodes_by_distance that measures from node 0 wherever the thread runs
compare_nodes_from_node0(cpu_node, node_a, node_b) ==
    numa_distance(0, node_a) - numa_distance(0, node_b)

\* compare_nodes_by_distance whose fallback reference is the last node
compare_nodes_unmapped_from_last(cpu_node, node_a, node_b) ==
    IF cpu_node >= 0
    THEN numa_distance(cpu_node, node_a) - numa_distance(cpu_node, node_b)
    ELSE numa_distance(MaxNode, node_a) - numa_distance(MaxNode, node_b)

\* compare_nodes_by_distance, with cpu_node the value of
\* numa_node_of_cpu(sched_getcpu()) at this comparison (-1 when sched_getcpu
\* or numa_node_of_cpu failed): node 0 is the reference then.
compare_nodes_by_distance(cpu_node, node_a, node_b) ==
    IF cpu_node >= 0
    THEN numa_distance(cpu_node, node_a) - numa_distance(cpu_node, node_b)
    ELSE numa_distance(0, node_a) - numa_distance(0, node_b)

\* the nodes of S in ascending order: the collection loop of init_sorted_nodes
RECURSIVE Ascending(_)
Ascending(S) ==
    IF S = {} THEN << >>
    ELSE LET m == CHOOSE x \in S : \A y \in S : x <= y
         IN <<m>> \o Ascending(S \ {m})

Range(s) == {s[i] : i \in 1..Len(s)}
PermutationsOf(arr) ==
    { p \in [1..Len(arr) -> Range(arr)] : Range(p) = Range(arr) }

\* qsort(arr, n, sizeof(int), compare_nodes_by_distance): C leaves the order of
\* elements that compare equal unspecified, and the comparator reads the
\* thread's node anew at every comparison.  The outcomes are the permutations
\* of arr in which every neighbouring pair is in order for a comparison the
\* thread can have made.
qsort(arr, cpu_nodes) ==
    { p \in PermutationsOf(arr) :
        \A i \in 1..(Len(arr) - 1) :
            \E c \in cpu_nodes : compare_nodes_by_distance(c, p[i], p[i + 1]) <= 0 }

\* init_sorted_nodes: the possible (sorted_nodes_by_distance,
\* num_available_nodes) pairs it leaves behind
init_sorted_nodes(t) ==
    IF t.max_node < 0
    THEN { [table |-> << >>, num |-> 0] }
    ELSE LET available_nodes == Ascending(t.all_nodes \cap 0..t.max_node)
         IN IF Len(available_nodes) = 0
            THEN { [table |-> << >>, num |-> 0] }
            ELSE { [table |-> p, num |-> Len(available_nodes)] :
                       p \in qsort(available_nodes, t.cpu_nodes) }

\* the NUMA globals as one value
NumaState(support, def, init, table, num) ==
    [support |-> support, def |-> def, init |-> init, table |-> table, num |-> num]
NumaNow == NumaState(numa_support_available, default_numa_node, numa_initialized,
                     sorted_nodes_by_distance, num_available_nodes)

\* zmalloc_numa_init that marks itself done without recording that
\* numa_available() failed or that no node was found
zmalloc_numa_init_keeps_support(t, ns) ==
    IF ns.init = 1 THEN {ns}
    ELSE IF t.available = 0 /\ t.max_node >= 0
    THEN { IF r.num > 0
           THEN NumaState(0, r.table[1], 1, r.table, r.num)
           ELSE NumaState(ns.support, ns.def, 1, r.table, r.num) :
               r \in init_sorted_nodes(t) }
    ELSE { NumaState(ns.support, ns.def, 1, ns.table, ns.num) }

\* zmalloc_numa_init: the possible values of the NUMA globals after the call
zmalloc_numa_init(t, ns) ==
    IF ns.init = 1 THEN {ns}
    ELSE IF t.available = 0
    THEN IF t.max_node >= 0
         THEN { IF r.num > 0
                THEN NumaState(0, r.table[1], 1, r.table, r.num)
                ELSE NumaState(-1, ns.def, 1, r.table, r.num) :
                    r \in init_sorted_nodes(t) }
         ELSE { NumaState(-1, ns.def, 1, ns.table, ns.num) }
    ELSE { NumaState(t.available, ns.def, 1, ns.table, ns.num) }

\* a head of a facade call that initialises whether or not it was done
lazy_init_always(t, ns) == zmalloc_numa_init(t, [ns EXCEPT !.init = 0])

\* "if (!numa_initialized) zmalloc_numa_init();" at the head of a facade call
lazy_init(t, ns) == IF ns.init = 0 THEN zmalloc_numa_init(t, ns) ELSE {ns}

\* --------------------------------------------------------- allocation paths
Succeeded(attempts) == Len(attempts) > 0 /\ Last(attempts).ok

\* numa_alloc_distance_first: the numa_alloc_onnode calls it makes, in order,
\* when numa_alloc_onnode fails exactly on the nodes of fail
RECURSIVE distance_first_from(_, _, _, _)
distance_first_from(table, num, fail, i) ==
    IF i > num THEN << >>
    ELSE IF table[i] \notin fail
    THEN << Attempt("numa_alloc_onnode", table[i], TRUE) >>
    ELSE << Attempt("numa_alloc_onnode", table[i], FALSE) >>
         \o distance_first_from(table, num, fail, i + 1)

\* a walk that forgets the nearest node (loop started at index 1 of a
\* 1-based table)
numa_alloc_distance_first_skip_nearest(table, num, fail) ==
    IF table = << >> \/ num = 0 THEN << >>
    ELSE distance_first_from(table, num, fail, 2)

numa_alloc_distance_first(table, num, fail) ==
    IF table = << >> \/ num = 0 THEN << >>
    ELSE distance_first_from(table, num, fail, 1)

\* a zmalloc_internal in which a failed hint is followed by the walk of the
\* ranking table
zmalloc_internal_hint_then_ranking(ns, policy, node, fail, malloc_ok) ==
    IF ns.support = 0
    THEN LET hinted == IF node >= 0
                       THEN << Attempt("numa_alloc_onnode", node, node \notin fail) >>
                       ELSE << >>
             smart ==
                 IF Succeeded(hinted) THEN hinted
                 ELSE IF policy = NUMA_POLICY_DISTANCE_FIRST
                 THEN hinted \o distance_first_from(ns.table, ns.num, fail, 1)
                 ELSE IF ns.def >= 0 /\ node < 0
                 THEN << Attempt("numa_alloc_onnode", ns.def, ns.def \notin fail) >>
                 ELSE hinted
         IN IF Succeeded(smart) THEN smart
            ELSE Append(smart, Attempt("malloc", -1, malloc_ok))
    ELSE << Attempt("malloc", -1, malloc_ok) >>

\* a zmalloc_internal in which the two reserved policies walk the ranking
\* table like DistanceFirst
zmalloc_internal_reserved_ranked(ns, policy, node, fail, malloc_ok) ==
    IF ns.support = 0 /\ node >= 0
    THEN << Attempt("numa_alloc_onnode", node, node \notin fail) >>
    ELSE IF ns.support = 0
    THEN LET smart ==
                 IF policy # NUMA_POLICY_DEFAULT
                 THEN numa_alloc_distance_first(ns.table, ns.num, fail)
                 ELSE IF ns.def >= 0
                 THEN << Attempt("numa_alloc_onnode", ns.def, ns.def \notin fail) >>
                 ELSE << >>
         IN IF Succeeded(smart) THEN smart
            ELSE Append(smart, Attempt("malloc", -1, malloc_ok))
    ELSE << Attempt("malloc", -1, malloc_ok) >>

\* zmalloc_internal up to "if (!ptr) zmalloc_oom": the allocation primitives it
\* calls, in order; ptr is the result of the last one
zmalloc_internal(ns, policy, node, fail, malloc_ok) ==
    IF ns.support = 0 /\ node >= 0
    THEN << Attempt("numa_alloc_onnode", node, node \notin fail) >>
    ELSE IF ns.support = 0
    THEN LET smart ==
                 IF policy = NUMA_POLICY_DISTANCE_FIRST
                 THEN numa_alloc_distance_first(ns.table, ns.num, fail)
                 ELSE IF ns.def >= 0
                 THEN << Attempt("numa_alloc_onnode", ns.def, ns.def \notin fail) >>
                 ELSE << >>
         IN IF Succeeded(smart) THEN smart
            ELSE Append(smart, Attempt("malloc", -1, malloc_ok))
    ELSE << Attempt("malloc", -1, malloc_ok) >>

\* the nodes zmalloc_internal can pass to numa_alloc_onnode in this state: the
\* outcome of numa_alloc_onnode is drawn for these
Candidates(ns, policy, node) ==
    IF ns.support # 0 THEN {}
    ELSE IF node >= 0 THEN {node}
    ELSE IF policy = NUMA_POLICY_DISTANCE_FIRST THEN Range(ns.table)
    ELSE IF ns.def >= 0 THEN {ns.def}
    ELSE {}

\* what one zmalloc_internal call can do: numa_alloc_onnode fails on any set of
\* the nodes it is asked for, malloc fails or not
AttemptSequences(ns, policy, node) ==
    { zmalloc_internal(ns, policy, node, fail, malloc_ok) :
          fail \in SUBSET Candidates(ns, policy, node), malloc_ok \in BOOLEAN }

\* zrealloc's choice of resize primitive
zrealloc_primitive(support) == IF support = 0 THEN "numa_realloc" ELSE "realloc"

\* a header write that records the size of the whole block, header included
BlockOf_total_size(size, attempts) ==
    IF Last(attempts).prim = "malloc" THEN Block(size + PREFIX_SIZE, "malloc")
    ELSE Block(size + PREFIX_SIZE, "numa")

\* the block a successful attempt sequence yields
BlockOf(size, attempts) ==
    IF Last(attempts).prim = "malloc" THEN Block(size, "malloc")
    ELSE Block(size, "numa")

\* zfree_internal's choice of release primitive
zfree_primitive(support) == IF support = 0 THEN "numa_free" ELSE "free"

\* the release primitive that matches a block's provenance
MatchingRelease(origin) == IF origin = "numa" THEN "numa_free" ELSE "free"

\* ---------------------------------------------------------------- accounting
\* increment_used_memory / decrement_used_memory: with one thread the locked
\* and the unlocked branch are the same single update
\* accounting that leaves the header out on one side
increment_used_memory_payload(um, n) == um + (n - PREFIX_SIZE)
decrement_used_memory_payload(um, n) == um - (n - PREFIX_SIZE)

increment_used_memory(um, n) == um + n
decrement_used_memory(um, n) == um - n

\* a zfree_internal without the NULL test: it reads a header that is not there
zfree_internal_null_header(h, um, support, ptr) ==
    IF ptr = NULL
    THEN [heap |-> h, used |-> um - PREFIX_SIZE,
          released |-> << Release("none", zfree_primitive(support)) >>]
    ELSE [heap |-> [h EXCEPT ![ptr] = NoBlock],
          used |-> um - (h[ptr].size + PREFIX_SIZE),
          released |-> << Release(h[ptr].origin, zfree_primitive(support)) >>]

\* zfree_internal: heap, counter and release-primitive call it leaves behind
zfree_internal(h, um, support, ptr) ==
    IF ptr = NULL
    THEN [heap |-> h, used |-> um, released |-> << >>]
    ELSE LET oldsize == h[ptr].size
         IN [heap |-> [h EXCEPT ![ptr] = NoBlock],
             used |-> decrement_used_memory(um, oldsize + PREFIX_SIZE),
             released |-> << Release(h[ptr].origin, zfree_primitive(support)) >>]

\* ----------------------------------------------------------------- payload
\* a byte of a payload nobody has stored to yet: its value is indeterminate
Indeterminate == -1
\* the payload malloc / numa_alloc_onnode hand out: size indeterminate bytes
fresh(size) == [i \in 1..size |-> Indeterminate]
Min(a, b) == IF a < b THEN a ELSE b
\* memcpy(dst, src, n) that stops one byte short
memcpy_short(dst, src, n) ==
    [i \in 1..Len(dst) |-> IF i <= n - 1 THEN src[i] ELSE dst[i]]
\* memcpy(dst, src, n): the first n bytes of dst become those of src
memcpy(dst, src, n) ==
    [i \in 1..Len(dst) |-> IF i <= n THEN src[i] ELSE dst[i]]
\* what realloc / numa_realloc leave in the resized block: the old bytes up to
\* the smaller of the two sizes, indeterminate bytes after them
resized(data, size) ==
    [i \in 1..size |-> IF i <= Len(data) THEN data[i] ELSE Indeterminate]
NoPayload == [p \in Ptrs |-> << >>]

\* ----------------------------------------------------------------- threads
Threads == 1..NumThreads
NoThread == 0
\* the int arrays of init_sorted_nodes by address (mem[a]: the cells and
\* whether free() was called on it), the address sorted_nodes_by_distance
\* holds, and whether undefined behaviour has occurred on them.  Only the
\* specification of the initialisation race tracks addresses; there
\* sorted_nodes_by_distance is what the pointer shows.
NoArrays == [mem |-> << >>, sorted |-> NULL, corrupt |-> FALSE]
\* the facade is called by one thread at a time: nothing is in progress
Idle == [t \in Threads |-> "idle"]
NoLocals == [t \in Threads |-> << >>]

\* ------------------------------------------------------------------- state
\* the process after program load: the static initialisers of zmalloc.c
Loaded ==
    /\ used_memory = 0
    /\ zmalloc_thread_safe = 0
    /\ numa_support_available = 0
    /\ default_numa_node = -1
    /\ numa_initialized = 0
    /\ sorted_nodes_by_distance = << >>
    /\ num_available_nodes = 0
    /\ current_numa_policy = NUMA_POLICY_DISTANCE_FIRST
    /\ heap = [p \in Ptrs |-> NoBlock]
    /\ aborted = FALSE
    /\ call = NoCall
    /\ payload = NoPayload
    /\ pc = Idle
    /\ local = NoLocals
    /\ used_memory_mutex = NoThread
    /\ arrays = NoArrays

Init ==
    /\ topo \in Topologies
    /\ Loaded

SetNuma(ns) ==
    /\ numa_support_available' = ns.support
    /\ default_numa_node' = ns.def
    /\ numa_initialized' = ns.init
    /\ sorted_nodes_by_distance' = ns.table
    /\ num_available_nodes' = ns.num

NumaUnchanged ==
    UNCHANGED <<numa_support_available, default_numa_node, numa_initialized,
                sorted_nodes_by_distance, num_available_nodes>>

\* zmalloc_internal(size, node) as called by the facade function op, followed
\* by zfree(old) when op is zrealloc_on_node: lazy initialisation, the
\* allocation attempts, then zmalloc_oom or the header write and the accounting
Allocate(op, size, node, old) ==
    \E ns \in lazy_init(topo, NumaNow) :
      \E attempts \in AttemptSequences(ns, current_numa_policy, node) :
        LET new == NewPtr(heap)
        IN /\ SetNuma(ns)
           /\ IF Succeeded(attempts)
              THEN LET h1 == [heap EXCEPT ![new] = BlockOf(size, attempts)]
                       u1 == increment_used_memory(used_memory, size + PREFIX_SIZE)
                       r == zfree_internal(h1, u1, ns.support, old)
                       \* zrealloc_on_node: memcpy(newptr, ptr, min(oldsize, size))
                       p1 == IF old = NULL THEN fresh(size)
                             ELSE memcpy(fresh(size), payload[old],
                                         Min(heap[old].size, size))
                   IN /\ heap' = r.heap
                      /\ used_memory' = r.used
                      /\ payload' = [p \in Ptrs |->
                                        IF p = new THEN p1
                                        ELSE IF p = old THEN << >>
                                        ELSE payload[p]]
                      /\ aborted' = FALSE
                      /\ call' = Sized(Call(op, node, old, attempts, r.released, new),
                                       size)
              ELSE /\ aborted' = TRUE
                   /\ call' = Sized(Call(op, node, old, attempts, << >>, NULL), size)
                   /\ UNCHANGED <<heap, used_memory, payload>>
           /\ UNCHANGED <<topo, conc, zmalloc_thread_safe, current_numa_policy>>

zmalloc(size) ==
    /\ ~aborted
    /\ FreePtrs(heap) # {}
    /\ Allocate("zmalloc", size, -1, NULL)

zmalloc_on_node(size, node) ==
    /\ ~aborted
    /\ FreePtrs(heap) # {}
    /\ Allocate("zmalloc_on_node", size, node, NULL)

zfree(ptr) ==
    /\ ~aborted
    /\ LET r == zfree_internal(heap, used_memory, numa_support_available, ptr)
       IN /\ heap' = r.heap
          /\ used_memory' = r.used
          /\ payload' = [p \in Ptrs |-> IF p = ptr THEN << >> ELSE payload[p]]
          /\ call' = Call("zfree", -1, ptr, << >>, r.released, 0)
    /\ NumaUnchanged
    /\ UNCHANGED <<topo, conc, zmalloc_thread_safe, current_numa_policy, aborted>>

\* zrealloc(ptr, size) of a live block: resized by numa_realloc or realloc
\* according to numa_support_available, no lazy initialisation, no fallback
zrealloc_block(ptr, size) ==
    \E ok \in BOOLEAN :
        LET oldsize == heap[ptr].size
            prim == zrealloc_primitive(numa_support_available)
        IN /\ IF ok
              THEN /\ heap' = [heap EXCEPT ![ptr] =
                                  IF prim = "numa_realloc"
                                  THEN Block(size, "numa")
                                  ELSE Block(size, "malloc")]
                   /\ used_memory' = increment_used_memory(
                          decrement_used_memory(used_memory, oldsize + PREFIX_SIZE),
                          size + PREFIX_SIZE)
                   /\ payload' = [payload EXCEPT ![ptr] = resized(payload[ptr], size)]
                   /\ aborted' = FALSE
                   /\ call' = Sized(Call("zrealloc", -1, ptr,
                                         << Attempt(prim, -1, TRUE) >>, << >>, ptr),
                                    size)
              ELSE /\ aborted' = TRUE
                   /\ call' = Sized(Call("zrealloc", -1, ptr,
                                         << Attempt(prim, -1, FALSE) >>, << >>, NULL),
                                    size)
                   /\ UNCHANGED <<heap, used_memory, payload>>
           /\ NumaUnchanged
           /\ UNCHANGED <<topo, conc, zmalloc_thread_safe, current_numa_policy>>

\* zrealloc that hands a NULL block straight back instead of allocating
zrealloc_null_is_noop(ptr, size) ==
    /\ ~aborted
    /\ IF ptr = NULL
       THEN /\ call' = Call("zrealloc", -1, NULL, << >>, << >>, NULL)
            /\ NumaUnchanged
            /\ UNCHANGED <<topo, conc, used_memory, zmalloc_thread_safe,
                           current_numa_policy, heap, payload, aborted>>
       ELSE zrealloc_block(ptr, size)

\* zrealloc: "if (ptr == NULL) return zmalloc(size);", else the resize
zrealloc(ptr, size) ==
    /\ ~aborted
    /\ IF ptr = NULL
       THEN FreePtrs(heap) # {} /\ Allocate("zrealloc", size, -1, NULL)
       ELSE zrealloc_block(ptr, size)

\* zrealloc_on_node: zmalloc_on_node(size, node), copy, zfree(ptr)
zrealloc_on_node(ptr, size, node) ==
    /\ ~aborted
    /\ FreePtrs(heap) # {}
    /\ Allocate("zrealloc_on_node", size, node, ptr)

zmalloc_used_memory ==
    /\ ~aborted
    /\ call' = Call("zmalloc_used_memory", -1, NULL, << >>, << >>, used_memory)
    /\ NumaUnchanged
    /\ UNCHANGED <<topo, conc, used_memory, zmalloc_thread_safe, current_numa_policy,
                   heap, payload, aborted>>

zmalloc_enable_thread_safeness ==
    /\ ~aborted
    /\ zmalloc_thread_safe' = 1
    /\ call' = Call("zmalloc_enable_thread_safeness", -1, NULL, << >>, << >>, 0)
    /\ NumaUnchanged
    /\ UNCHANGED <<topo, conc, used_memory, current_numa_policy, heap, payload, aborted>>

zmalloc_get_current_numa_node ==
    /\ ~aborted
    /\ \E ns \in lazy_init(topo, NumaNow) :
           /\ SetNuma(ns)
           /\ call' = Call("zmalloc_get_current_numa_node", -1, NULL, << >>, << >>,
                           IF ns.support = 0 THEN ns.def ELSE -1)
    /\ UNCHANGED <<topo, conc, used_memory, zmalloc_thread_safe, current_numa_policy,
                   heap, payload, aborted>>

\* zmalloc_set_numa_node that stores the node without the range check
zmalloc_set_numa_node_unchecked(node) ==
    /\ ~aborted
    /\ \E ns \in lazy_init(topo, NumaNow) :
           /\ SetNuma([ns EXCEPT !.def = node])
           /\ call' = Call("zmalloc_set_numa_node", node, NULL, << >>, << >>, 0)
    /\ UNCHANGED <<topo, conc, used_memory, zmalloc_thread_safe, current_numa_policy,
                   heap, payload, aborted>>

zmalloc_set_numa_node(node) ==
    /\ ~aborted
    /\ \E ns \in lazy_init(topo, NumaNow) :
           /\ IF node >= 0 /\ node < topo.max_node + 1
              THEN SetNuma([ns EXCEPT !.def = node])
              ELSE SetNuma(ns)
           /\ call' = Call("zmalloc_set_numa_node", node, NULL, << >>, << >>, 0)
    /\ UNCHANGED <<topo, conc, used_memory, zmalloc_thread_safe, current_numa_policy,
                   heap, payload, aborted>>

zmalloc_set_numa_policy(policy) ==
    /\ ~aborted
    /\ current_numa_policy' = policy
    /\ call' = Call("zmalloc_set_numa_policy", policy, NULL, << >>, << >>, 0)
    /\ NumaUnchanged
    /\ UNCHANGED <<topo, conc, used_memory, zmalloc_thread_safe, heap, payload, aborted>>

\* zmalloc_cleanup_numa that returns the whole subsystem to its load-time
\* state: the accountant's thread-safety flag and the policy too
zmalloc_cleanup_numa_resets_all ==
    /\ ~aborted
    /\ sorted_nodes_by_distance' = << >>
    /\ num_available_nodes' = 0
    /\ numa_initialized' = 0
    /\ zmalloc_thread_safe' = 0
    /\ current_numa_policy' = NUMA_POLICY_DISTANCE_FIRST
    /\ call' = Call("zmalloc_cleanup_numa", -1, NULL, << >>, << >>, 0)
    /\ UNCHANGED <<topo, conc, used_memory, numa_support_available,
                   default_numa_node, heap, payload, aborted>>

zmalloc_cleanup_numa ==
    /\ ~aborted
    /\ sorted_nodes_by_distance' = << >>
    /\ num_available_nodes' = 0
    /\ numa_initialized' = 0
    /\ call' = Call("zmalloc_cleanup_numa", -1, NULL, << >>, << >>, 0)
    /\ UNCHANGED <<topo, conc, used_memory, zmalloc_thread_safe, numa_support_available,
                   default_numa_node, current_numa_policy, heap, payload, aborted>>

PtrArgs == Live(heap) \cup {NULL}

Next ==
    \/ \E size \in Sizes : zmalloc(size)
    \/ \E size \in Sizes, node \in NodeArgs : zmalloc_on_node(size, node)
    \/ \E ptr \in PtrArgs, size \in Sizes : zrealloc(ptr, size)
    \/ \E ptr \in PtrArgs, size \in Sizes, node \in NodeArgs :
           zrealloc_on_node(ptr, size, node)
    \/ \E ptr \in PtrArgs : zfree(ptr)
    \/ zmalloc_used_memory
    \/ zmalloc_enable_thread_safeness
    \/ zmalloc_get_current_numa_node
    \/ \E node \in NodeArgs : zmalloc_set_numa_node(node)
    \/ \E policy \in numa_policy_t : zmalloc_set_numa_policy(policy)
    \/ zmalloc_cleanup_numa

Spec == Init /\ [][Next]_vars

\* ---------------------------------------------------------------- scenario
\* The run of test-numa.c on a machine with the two nodes 0 and 1, the
\* thread on a CPU of node 1: blocks of 100 bytes under every configuration.
ScenarioMachine == Machine(0, 1, {0, 1}, {1})
ScenarioSize == 100

InitScenario ==
    /\ topo = ScenarioMachine
    /\ Loaded

NextScenario ==
    \/ zmalloc(ScenarioSize)
    \/ \E ptr \in PtrArgs : zfree(ptr)
    \/ zmalloc_used_memory
    \/ zmalloc_get_current_numa_node
    \/ \E node \in NodeArgs : zmalloc_set_numa_node(node)
    \/ \E policy \in numa_policy_t : zmalloc_set_numa_policy(policy)
    \/ zmalloc_cleanup_numa

SpecScenario == InitScenario /\ [][NextScenario]_vars

\* ------------------------------------------------------------ block contents
\* The caller fills a block it owns with bytes it knows (strcpy in
\* test-numa.c): byte i of the block at ptr becomes KnownByte(ptr, i).
KnownByte(ptr, i) == ptr * (MaxSize + 1) + i

store(ptr) ==
    /\ ~aborted
    /\ ptr # NULL
    /\ payload' = [payload EXCEPT ![ptr] =
                       [i \in 1..heap[ptr].size |-> KnownByte(ptr, i)]]
    /\ call' = Call("store", -1, ptr, << >>, << >>, 0)
    /\ NumaUnchanged
    /\ UNCHANGED <<topo, conc, used_memory, zmalloc_thread_safe,
                   current_numa_policy, heap, aborted>>

\* one machine with the topology, one without
InitData ==
    /\ topo \in { Machine(0, MaxNode, NodeIds, {1}),
                   Machine(-1, MaxNode, NodeIds, {0}) }
    /\ Loaded

\* the calls that create, resize, move, fill and release blocks
NextData ==
    \/ \E size \in Sizes : zmalloc(size)
    \/ \E ptr \in PtrArgs, size \in Sizes : zrealloc(ptr, size)
    \/ \E ptr \in PtrArgs, size \in Sizes, node \in NodeArgs :
           zrealloc_on_node(ptr, size, node)
    \/ \E ptr \in PtrArgs : zfree(ptr)
    \/ \E ptr \in PtrArgs : store(ptr)

SpecData == InitData /\ [][NextData]_vars

\* ------------------------------------------------- accounting, several threads
\* NumThreads threads call zmalloc, zrealloc, zfree and zmalloc_used_memory at
\* the same time, after the main thread has enabled thread safety and
\* initialised the topology (as test-numa.c does before test_thread_safety).
\* A step is what one thread does between two accesses to shared state: the
\* allocation primitive with the header access, pthread_mutex_lock, the load
\* and the store of "used_memory += n", pthread_mutex_unlock, the release
\* primitive.  A block is passed to one call at a time.

\* "if (zmalloc_thread_safe)" that never takes the mutex
takes_mutex_never(thread_safe) == FALSE
\* "if (zmalloc_thread_safe)" of the accounting macros and zmalloc_used_memory
takes_mutex(thread_safe) == thread_safe # 0

\* one pending access to used_memory: kind "add", "sub" or "read"
Access(kind, n) == [kind |-> kind, n |-> n]
\* the locals of a call in progress: its block, the accesses to used_memory
\* it still has to make, the value it loaded
Locals(op, ptr, todo) == [op |-> op, ptr |-> ptr, todo |-> todo, reg |-> 0]

\* the blocks some call in progress is working on
Busy == {local[t].ptr : t \in {u \in Threads : pc[u] # "idle"}}

InitAccounting ==
    /\ topo \in { Machine(0, MaxNode, NodeIds, {1}),
                   Machine(-1, MaxNode, NodeIds, {0}) }
    /\ \E ns \in zmalloc_numa_init(topo, NumaState(0, -1, 0, << >>, 0)) :
           /\ numa_support_available = ns.support
           /\ default_numa_node = ns.def
           /\ numa_initialized = ns.init
           /\ sorted_nodes_by_distance = ns.table
           /\ num_available_nodes = ns.num
    /\ used_memory = 0
    /\ zmalloc_thread_safe = 1
    /\ current_numa_policy = NUMA_POLICY_DISTANCE_FIRST
    /\ heap = [p \in Ptrs |-> NoBlock]
    /\ payload = NoPayload
    /\ aborted = FALSE
    /\ call = NoCall
    /\ pc = Idle
    /\ local = NoLocals
    /\ used_memory_mutex = NoThread
    /\ arrays = NoArrays

\* what no step of these threads changes
AccountingFrame ==
    /\ NumaUnchanged
    /\ UNCHANGED <<topo, zmalloc_thread_safe, current_numa_policy, call, arrays>>

\* thread t calls zmalloc(size): zmalloc_internal up to the header write
enter_zmalloc(t, size) ==
    /\ ~aborted
    /\ pc[t] = "idle"
    /\ FreePtrs(heap) # {}
    /\ \E attempts \in AttemptSequences(NumaNow, current_numa_policy, -1) :
         IF Succeeded(attempts)
         THEN LET new == NewPtr(heap)
              IN /\ heap' = [heap EXCEPT ![new] = BlockOf(size, attempts)]
                 /\ payload' = [payload EXCEPT ![new] = fresh(size)]
                 /\ local' = [local EXCEPT ![t] =
                        Locals("zmalloc", new, << Access("add", size + PREFIX_SIZE) >>)]
                 /\ pc' = [pc EXCEPT ![t] = "lock"]
                 /\ UNCHANGED aborted
         ELSE /\ aborted' = TRUE
              /\ UNCHANGED <<heap, payload, local, pc>>
    /\ UNCHANGED <<used_memory, used_memory_mutex>>
    /\ AccountingFrame

\* thread t calls zfree(ptr): zfree_internal up to the read of the header
enter_zfree(t, ptr) ==
    /\ ~aborted
    /\ pc[t] = "idle"
    /\ ptr \in Live(heap) \ Busy
    /\ local' = [local EXCEPT ![t] =
           Locals("zfree", ptr, << Access("sub", heap[ptr].size + PREFIX_SIZE) >>)]
    /\ pc' = [pc EXCEPT ![t] = "lock"]
    /\ UNCHANGED <<heap, payload, aborted, used_memory, used_memory_mutex>>
    /\ AccountingFrame

\* thread t calls zrealloc(ptr, size) on a live block: the read of the header,
\* numa_realloc / realloc, the header write
enter_zrealloc(t, ptr, size) ==
    /\ ~aborted
    /\ pc[t] = "idle"
    /\ ptr \in Live(heap) \ Busy
    /\ \E ok \in BOOLEAN :
         IF ok
         THEN /\ heap' = [heap EXCEPT ![ptr] =
                     IF zrealloc_primitive(numa_support_available) = "numa_realloc"
                     THEN Block(size, "numa")
                     ELSE Block(size, "malloc")]
              /\ payload' = [payload EXCEPT ![ptr] = resized(payload[ptr], size)]
              /\ local' = [local EXCEPT ![t] =
                     Locals("zrealloc", ptr,
                            << Access("sub", heap[ptr].size + PREFIX_SIZE),
                               Access("add", size + PREFIX_SIZE) >>)]
              /\ pc' = [pc EXCEPT ![t] = "lock"]
              /\ UNCHANGED aborted
         ELSE /\ aborted' = TRUE
              /\ UNCHANGED <<heap, payload, local, pc>>
    /\ UNCHANGED <<used_memory, used_memory_mutex>>
    /\ AccountingFrame

\* thread t calls zmalloc_used_memory()
enter_zmalloc_used_memory(t) ==
    /\ ~aborted
    /\ pc[t] = "idle"
    /\ local' = [local EXCEPT ![t] =
           Locals("zmalloc_used_memory", NULL, << Access("read", 0) >>)]
    /\ pc' = [pc EXCEPT ![t] = "lock"]
    /\ UNCHANGED <<heap, payload, aborted, used_memory, used_memory_mutex>>
    /\ AccountingFrame

\* "if (zmalloc_thread_safe) pthread_mutex_lock(&used_memory_mutex);"
pthread_mutex_lock(t) ==
    /\ ~aborted
    /\ pc[t] = "lock"
    /\ IF takes_mutex(zmalloc_thread_safe)
       THEN /\ used_memory_mutex = NoThread
            /\ used_memory_mutex' = t
       ELSE UNCHANGED used_memory_mutex
    /\ pc' = [pc EXCEPT ![t] = "load"]
    /\ UNCHANGED <<heap, payload, aborted, used_memory, local>>
    /\ AccountingFrame

\* the read of used_memory in "used_memory += _n", "used_memory -= _n" and
\* "um = used_memory"
load_used_memory(t) ==
    /\ ~aborted
    /\ pc[t] = "load"
    /\ local' = [local EXCEPT ![t].reg = used_memory]
    /\ pc' = [pc EXCEPT ![t] =
                  IF local[t].todo[1].kind = "read" THEN "unlock" ELSE "store"]
    /\ UNCHANGED <<heap, payload, aborted, used_memory, used_memory_mutex>>
    /\ AccountingFrame

\* the write of used_memory in "used_memory += _n" and "used_memory -= _n"
store_used_memory(t) ==
    /\ ~aborted
    /\ pc[t] = "store"
    /\ used_memory' =
           IF local[t].todo[1].kind = "add"
           THEN increment_used_memory(local[t].reg, local[t].todo[1].n)
           ELSE decrement_used_memory(local[t].reg, local[t].todo[1].n)
    /\ pc' = [pc EXCEPT ![t] = "unlock"]
    /\ UNCHANGED <<heap, payload, aborted, used_memory_mutex, local>>
    /\ AccountingFrame

\* an unlock that leaves used_memory_mutex with the caller
pthread_mutex_unlock_keeps(t) ==
    /\ ~aborted
    /\ pc[t] = "unlock"
    /\ IF Len(local[t].todo) > 1
       THEN /\ local' = [local EXCEPT ![t].todo = Tail(@), ![t].reg = 0]
            /\ pc' = [pc EXCEPT ![t] = "lock"]
       ELSE IF local[t].op = "zfree"
       THEN /\ local' = [local EXCEPT ![t].todo = << >>, ![t].reg = 0]
            /\ pc' = [pc EXCEPT ![t] = "release"]
       ELSE /\ local' = [local EXCEPT ![t] = << >>]
            /\ pc' = [pc EXCEPT ![t] = "idle"]
    /\ UNCHANGED <<heap, payload, aborted, used_memory, used_memory_mutex>>
    /\ AccountingFrame

\* "if (zmalloc_thread_safe) pthread_mutex_unlock(&used_memory_mutex);", then
\* the next macro of the call, the release primitive of zfree, or the return
pthread_mutex_unlock(t) ==
    /\ ~aborted
    /\ pc[t] = "unlock"
    /\ IF takes_mutex(zmalloc_thread_safe)
       THEN used_memory_mutex' = NoThread
       ELSE UNCHANGED used_memory_mutex
    /\ IF Len(local[t].todo) > 1
       THEN /\ local' = [local EXCEPT ![t].todo = Tail(@), ![t].reg = 0]
            /\ pc' = [pc EXCEPT ![t] = "lock"]
       ELSE IF local[t].op = "zfree"
       THEN /\ local' = [local EXCEPT ![t].todo = << >>, ![t].reg = 0]
            /\ pc' = [pc EXCEPT ![t] = "release"]
       ELSE /\ local' = [local EXCEPT ![t] = << >>]
            /\ pc' = [pc EXCEPT ![t] = "idle"]
    /\ UNCHANGED <<heap, payload, aborted, used_memory>>
    /\ AccountingFrame

\* numa_free / free at the end of zfree_internal, and the return
release_block(t) ==
    /\ ~aborted
    /\ pc[t] = "release"
    /\ heap' = [heap EXCEPT ![local[t].ptr] = NoBlock]
    /\ payload' = [payload EXCEPT ![local[t].ptr] = << >>]
    /\ local' = [local EXCEPT ![t] = << >>]
    /\ pc' = [pc EXCEPT ![t] = "idle"]
    /\ UNCHANGED <<aborted, used_memory, used_memory_mutex>>
    /\ AccountingFrame

NextAccounting ==
    \E t \in Threads :
        \/ \E size \in Sizes : enter_zmalloc(t, size)
        \/ \E ptr \in Ptrs : enter_zfree(t, ptr)
        \/ \E ptr \in Ptrs, size \in Sizes : enter_zrealloc(t, ptr, size)
        \/ enter_zmalloc_used_memory(t)
        \/ pthread_mutex_lock(t)
        \/ load_used_memory(t)
        \/ store_used_memory(t)
        \/ pthread_mutex_unlock(t)
        \/ release_block(t)

SpecAccounting == InitAccounting /\ [][NextAccounting]_vars

\* fair scheduling: a thread inside a call keeps running (its load, store,
\* unlock and release steps are taken when they stay possible), and a thread
\* waiting in pthread_mutex_lock gets the mutex if it is free again and again.
\* Callers are not obliged to start new calls.
FairScheduling ==
    \A t \in Threads :
        /\ SF_vars(pthread_mutex_lock(t))
        /\ WF_vars(load_used_memory(t) \/ store_used_memory(t)
                     \/ pthread_mutex_unlock(t) \/ release_block(t))

SpecAccountingFair == SpecAccounting /\ FairScheduling

\* ------------------------------------------- initialisation, several threads
\* NumThreads threads make their first facade call at the same time; each runs
\* "if (!numa_initialized) zmalloc_numa_init();" with no lock.  A step is what
\* one thread does around one access to a global.  An access outside an array,
\* to a freed array or through NULL, and a second free() of an array, are
\* undefined behaviour: recorded in arrays.corrupt.

\* the first num entries of the array sorted_nodes_by_distance points to
Shown(arr, num) ==
    IF arr.sorted = NULL THEN << >>
    ELSE LET cells == arr.mem[arr.sorted].cells
         IN SubSeq(cells, 1, Min(num, Len(cells)))

\* the next node id from i on whose bit is set in numa_all_nodes_ptr, or -1
NextNode(i) ==
    LET S == {n \in topo.all_nodes : i <= n /\ n <= topo.max_node}
    IN IF S = {} THEN -1 ELSE CHOOSE n \in S : \A m \in S : n <= m

\* the locals of init_sorted_nodes: available_nodes, i, and the value of
\* num_available_nodes read by "num_available_nodes++"
InitLocals(available_nodes, i, n) ==
    [available_nodes |-> available_nodes, i |-> i, n |-> n]

InitRace ==
    /\ topo \in Topologies
    /\ Loaded

\* what no step of the initialisation changes
RaceFrame ==
    UNCHANGED <<topo, used_memory, zmalloc_thread_safe, current_numa_policy,
                heap, payload, aborted, call, used_memory_mutex>>

\* "if (!numa_initialized) zmalloc_numa_init();" at the head of the call
first_call(t) ==
    /\ pc[t] = "idle"
    /\ pc' = [pc EXCEPT ![t] = IF numa_initialized = 0 THEN "zmalloc_numa_init"
                                ELSE "done"]
    /\ NumaUnchanged
    /\ UNCHANGED <<local, arrays>>
    /\ RaceFrame

\* zmalloc_numa_init from "if (numa_initialized) return;" to the call of
\* init_sorted_nodes
numa_init_enter(t) ==
    /\ pc[t] = "zmalloc_numa_init"
    /\ IF numa_initialized # 0
       THEN /\ pc' = [pc EXCEPT ![t] = "done"]
            /\ UNCHANGED numa_support_available
       ELSE IF topo.available = 0 /\ topo.max_node >= 0
       THEN /\ numa_support_available' = topo.available
            /\ pc' = [pc EXCEPT ![t] = "free_old"]
       ELSE /\ numa_support_available' =
                   (IF topo.available = 0 THEN -1 ELSE topo.available)
            /\ pc' = [pc EXCEPT ![t] = "set_initialized"]
    /\ UNCHANGED <<default_numa_node, numa_initialized, sorted_nodes_by_distance,
                   num_available_nodes, local, arrays>>
    /\ RaceFrame

\* init_sorted_nodes: "if (sorted_nodes_by_distance != NULL) free(...)"
free_old(t) ==
    /\ pc[t] = "free_old"
    /\ LET a == arrays.sorted
       IN arrays' = IF a = NULL THEN arrays
                    ELSE [arrays EXCEPT !.mem[a].freed = TRUE,
                                        !.corrupt = @ \/ arrays.mem[a].freed]
    /\ pc' = [pc EXCEPT ![t] = "malloc_array"]
    /\ NumaUnchanged
    /\ UNCHANGED local
    /\ RaceFrame

\* "available_nodes = malloc((max_node + 1) * sizeof(int));
\*  num_available_nodes = 0;"
malloc_array(t) ==
    /\ pc[t] = "malloc_array"
    /\ LET a == Len(arrays.mem) + 1
       IN /\ arrays' = [arrays EXCEPT !.mem = Append(@,
                            [cells |-> fresh(topo.max_node + 1), freed |-> FALSE])]
          /\ local' = [local EXCEPT ![t] = InitLocals(a, 0, 0)]
    /\ num_available_nodes' = 0
    /\ pc' = [pc EXCEPT ![t] = "collect"]
    /\ sorted_nodes_by_distance' = Shown(arrays', num_available_nodes')
    /\ UNCHANGED <<numa_support_available, default_numa_node, numa_initialized>>
    /\ RaceFrame

\* the collection loop up to the read of num_available_nodes in
\* "available_nodes[num_available_nodes++] = i"
load_count(t) ==
    /\ pc[t] = "collect"
    /\ NextNode(local[t].i) >= 0
    /\ local' = [local EXCEPT ![t].i = NextNode(local[t].i),
                               ![t].n = num_available_nodes]
    /\ pc' = [pc EXCEPT ![t] = "store_node"]
    /\ NumaUnchanged
    /\ UNCHANGED arrays
    /\ RaceFrame

\* the writes of "available_nodes[num_available_nodes++] = i", then "i++"
store_node(t) ==
    /\ pc[t] = "store_node"
    /\ LET a == local[t].available_nodes
           n == local[t].n
       IN arrays' = IF n + 1 <= Len(arrays.mem[a].cells)
                    THEN [arrays EXCEPT !.mem[a].cells[n + 1] = local[t].i]
                    ELSE [arrays EXCEPT !.corrupt = TRUE]
    /\ num_available_nodes' = local[t].n + 1
    /\ local' = [local EXCEPT ![t].i = @ + 1]
    /\ pc' = [pc EXCEPT ![t] = "collect"]
    /\ sorted_nodes_by_distance' = Shown(arrays', num_available_nodes')
    /\ UNCHANGED <<numa_support_available, default_numa_node, numa_initialized>>
    /\ RaceFrame

\* after the loop: "if (num_available_nodes == 0) { free(available_nodes);
\* sorted_nodes_by_distance = NULL; return; }
\* sorted_nodes_by_distance = available_nodes;"
publish(t) ==
    /\ pc[t] = "collect"
    /\ NextNode(local[t].i) < 0
    /\ LET a == local[t].available_nodes
       IN IF num_available_nodes = 0
          THEN /\ arrays' = [arrays EXCEPT !.mem[a].freed = TRUE, !.sorted = NULL]
               /\ pc' = [pc EXCEPT ![t] = "after_sort"]
          ELSE /\ arrays' = [arrays EXCEPT !.sorted = a]
               /\ pc' = [pc EXCEPT ![t] = "qsort"]
    /\ sorted_nodes_by_distance' = Shown(arrays', num_available_nodes)
    /\ UNCHANGED <<numa_support_available, default_numa_node, numa_initialized,
                   num_available_nodes, local>>
    /\ RaceFrame

\* "qsort(sorted_nodes_by_distance, num_available_nodes, ...)": sorts, in
\* place, what the two globals designate when it is called
sort_published(t) ==
    /\ pc[t] = "qsort"
    /\ LET a == arrays.sorted
           n == num_available_nodes
       IN IF a = NULL \/ n = 0
          THEN arrays' = [arrays EXCEPT !.corrupt = @ \/ (a = NULL /\ n > 0)]
          ELSE IF arrays.mem[a].freed \/ n > Len(arrays.mem[a].cells)
          THEN arrays' = [arrays EXCEPT !.corrupt = TRUE]
          ELSE LET cells == arrays.mem[a].cells
                   head == SubSeq(cells, 1, n)
               IN IF Indeterminate \in Range(head)
                  THEN UNCHANGED arrays
                  ELSE \E sorted \in qsort(head, topo.cpu_nodes) :
                         arrays' = [arrays EXCEPT !.mem[a].cells =
                                       sorted \o SubSeq(cells, n + 1, Len(cells))]
    /\ pc' = [pc EXCEPT ![t] = "after_sort"]
    /\ sorted_nodes_by_distance' = Shown(arrays', num_available_nodes)
    /\ UNCHANGED <<numa_support_available, default_numa_node, numa_initialized,
                   num_available_nodes, local>>
    /\ RaceFrame

\* back in zmalloc_numa_init: "if (num_available_nodes > 0) default_numa_node
\* = sorted_nodes_by_distance[0]; else numa_support_available = -1;"
after_sort(t) ==
    /\ pc[t] = "after_sort"
    /\ LET a == arrays.sorted
       IN IF num_available_nodes > 0
          THEN /\ IF a = NULL
                  THEN /\ arrays' = [arrays EXCEPT !.corrupt = TRUE]
                       /\ UNCHANGED default_numa_node
                  ELSE /\ arrays' = [arrays EXCEPT
                                         !.corrupt = @ \/ arrays.mem[a].freed]
                       /\ default_numa_node' = arrays.mem[a].cells[1]
               /\ UNCHANGED numa_support_available
          ELSE /\ numa_support_available' = -1
               /\ UNCHANGED <<arrays, default_numa_node>>
    /\ pc' = [pc EXCEPT ![t] = "set_initialized"]
    /\ UNCHANGED <<numa_initialized, sorted_nodes_by_distance,
                   num_available_nodes, local>>
    /\ RaceFrame

\* "numa_initialized = 1;" and the return of the facade call
set_initialized(t) ==
    /\ pc[t] = "set_initialized"
    /\ numa_initialized' = 1
    /\ pc' = [pc EXCEPT ![t] = "done"]
    /\ local' = [local EXCEPT ![t] = << >>]
    /\ UNCHANGED <<numa_support_available, default_numa_node,
                   sorted_nodes_by_distance, num_available_nodes, arrays>>
    /\ RaceFrame

NextRace ==
    \E t \in Threads :
        \/ first_call(t)
        \/ numa_init_enter(t)
        \/ free_old(t)
        \/ malloc_array(t)
        \/ load_count(t)
        \/ store_node(t)
        \/ publish(t)
        \/ sort_published(t)
        \/ after_sort(t)
        \/ set_initialized(t)

SpecRace == InitRace /\ [][NextRace]_vars

\* ================================================================== claims
PayloadSize == [p \in Ptrs |-> heap[p].size]
BlockBytes == [p \in Ptrs |-> heap[p].size + PREFIX_SIZE]
Targeted(a) == a.prim = "numa_alloc_onnode" \/ a.prim = "numa_realloc"
Untargeted(a) == a.prim = "malloc" \/ a.prim = "realloc"
TopologyAvailable == numa_support_available = 0

\* C1: single-threaded, after any sequence of facade calls used_memory is the
\* sum over the live blocks of (recorded payload size + PREFIX_SIZE), whichever
\* path produced each block; with no live block it is back at its start, 0.
C1_UsedMemoryIsLiveBytes ==
    /\ used_memory = SumOver(Live(heap), BlockBytes)
    /\ Live(heap) = {} => used_memory = 0

\* a block was freed while another one, of the largest size, stays live
C1_Witness ==
    /\ call.op = "zfree" /\ call.ptr # NULL
    /\ Cardinality(Live(heap)) = 1
    /\ used_memory = MaxSize + PREFIX_SIZE

\* C2 as stated: zmalloc_used_memory() returns the sum of the live payload
\* sizes (headers not counted).
C2_UsedBytesIsPayloadSum ==
    call.op = "zmalloc_used_memory" => call.ret = SumOver(Live(heap), PayloadSize)

\* C2 amended: zmalloc_used_memory() returns the sum of the live payload sizes
\* plus PREFIX_SIZE for every live block.
C2_UsedBytesIsPayloadPlusHeaders ==
    call.op = "zmalloc_used_memory" =>
        call.ret = SumOver(Live(heap), PayloadSize)
                   + PREFIX_SIZE * Cardinality(Live(heap))

C2_Witness ==
    /\ call.op = "zmalloc_used_memory"
    /\ Cardinality(Live(heap)) = MaxBlocks
    /\ call.ret > SumOver(Live(heap), PayloadSize)

\* C3: with topology available, a zmalloc_on_node with a node hint whose
\* node-targeted attempts all fail goes on to malloc, and unless malloc fails
\* too it returns a block and the process is not terminated.
C3_HintFallsBackToMalloc ==
    ( /\ call.op = "zmalloc_on_node" /\ call.node >= 0
      /\ TopologyAvailable
      /\ \A i \in 1..Len(call.attempts) :
             Targeted(call.attempts[i]) => ~call.attempts[i].ok )
    => /\ \E i \in 1..Len(call.attempts) : call.attempts[i].prim = "malloc"
       /\ \/ ~Last(call.attempts).ok
          \/ ~aborted /\ call.ret # NULL /\ heap[call.ret].origin = "malloc"

\* C4: the process is terminated by an allocating facade call only after an
\* untargeted attempt (malloc, realloc) was made in that call and failed.
C4_AbortOnlyAfterUntargetedFailure ==
    aborted => \E i \in 1..Len(call.attempts) :
                   Untargeted(call.attempts[i]) /\ ~call.attempts[i].ok

\* C5: zmalloc_on_node with a node outside [0, numa_max_node()] makes no
\* node-targeted attempt on that node id and tries what zmalloc would try.
C5_OutOfRangeHintIsNoHint ==
    ( /\ call.op = "zmalloc_on_node"
      /\ (call.node < 0 \/ call.node > topo.max_node) )
    => /\ \A i \in 1..Len(call.attempts) :
              Targeted(call.attempts[i]) => call.attempts[i].node # call.node
       /\ \E fail \in SUBSET NodeIds, malloc_ok \in BOOLEAN :
              call.attempts =
                  zmalloc_internal(NumaNow, current_numa_policy, -1, fail, malloc_ok)

\* C6: topology available, policy DistanceFirst, explicit in-range hint N: the
\* first attempt is node-targeted on N, no other node is ever attempted, and
\* what may follow a failure on N is the untargeted attempt only.
C6_HintBypassesRanking ==
    ( /\ call.op \in {"zmalloc_on_node", "zrealloc_on_node"}
      /\ TopologyAvailable
      /\ current_numa_policy = NUMA_POLICY_DISTANCE_FIRST
      /\ call.node \in 0..topo.max_node )
    => /\ Len(call.attempts) >= 1
       /\ call.attempts[1].prim = "numa_alloc_onnode"
       /\ call.attempts[1].node = call.node
       /\ \A i \in 2..Len(call.attempts) :
              /\ call.attempts[i].prim = "malloc"
              /\ ~call.attempts[1].ok
              /\ i = 2

\* the hint was a ranked node other than the nearest one, and it failed
C6_Witness ==
    /\ call.op = "zmalloc_on_node"
    /\ TopologyAvailable
    /\ current_numa_policy = NUMA_POLICY_DISTANCE_FIRST
    /\ Len(sorted_nodes_by_distance) > 1
    /\ call.node \in Range(sorted_nodes_by_distance)
    /\ call.node # sorted_nodes_by_distance[1]
    /\ ~call.attempts[1].ok

\* C7: zfree(NULL) changes nothing (counter, blocks, policy, default node,
\* topology state) and does not terminate the process.
C7_FreeNullIsNoOp ==
    [][ (call'.op = "zfree" /\ call'.ptr = NULL) =>
            /\ UNCHANGED <<used_memory, heap, current_numa_policy, default_numa_node,
                           numa_support_available, numa_initialized,
                           sorted_nodes_by_distance, num_available_nodes, topo,
                           zmalloc_thread_safe>>
            /\ call'.released = << >>
            /\ ~aborted' ]_vars

\* zfree(NULL) was called with blocks live
C7_Witness ==
    /\ call.op = "zfree" /\ call.ptr = NULL
    /\ Live(heap) # {}
    /\ used_memory > 0

\* C8: every block zfree releases goes through the release primitive of the
\* family that handed it out (numa_free for a node-targeted block, free for a
\* malloc block).
C8_ReleaseMatchesProvenance ==
    \A i \in 1..Len(call.released) :
        call.released[i].via = MatchingRelease(call.released[i].origin)

\* C9: no hint, policy DistanceFirst, non-empty ranking table: the
\* node-targeted attempts follow the table from its head in table order, only
\* the last attempt of the call can have succeeded, and malloc is attempted
\* only after every ranked node has failed.
C9_RankedWalkInOrder ==
    ( /\ call.op = "zmalloc"
      /\ TopologyAvailable
      /\ current_numa_policy = NUMA_POLICY_DISTANCE_FIRST
      /\ sorted_nodes_by_distance # << >> )
    => LET a == call.attempts
           n == Len(sorted_nodes_by_distance)
       IN /\ Len(a) >= 1
          /\ a[1].prim = "numa_alloc_onnode"
          /\ \A i \in 1..Len(a) :
                 /\ i < Len(a) => ~a[i].ok
                 /\ a[i].prim = "numa_alloc_onnode" =>
                        i <= n /\ a[i].node = sorted_nodes_by_distance[i]
                 /\ a[i].prim # "numa_alloc_onnode" =>
                        a[i].prim = "malloc" /\ i = n + 1

\* the two nearest nodes failed and the third one served the request
C9_Witness ==
    /\ call.op = "zmalloc"
    /\ TopologyAvailable
    /\ current_numa_policy = NUMA_POLICY_DISTANCE_FIRST
    /\ Len(call.attempts) = 3
    /\ ~call.attempts[1].ok /\ ~call.attempts[2].ok
    /\ call.attempts[3].prim = "numa_alloc_onnode" /\ call.attempts[3].ok
    /\ ~aborted

\* C10: for a thread that stays on one node (fixed reference), the ranking
\* table holds every present node exactly once, ascending by distance from the
\* reference node, equidistant nodes in ascending node id.
ReferenceNode(cpu_node) == IF cpu_node >= 0 THEN cpu_node ELSE 0
C10_RankingByDistanceThenId ==
    ( /\ numa_initialized = 1 /\ TopologyAvailable
      /\ Cardinality(topo.cpu_nodes) = 1 )
    => LET t == sorted_nodes_by_distance
           ref == ReferenceNode(CHOOSE c \in topo.cpu_nodes : TRUE)
       IN /\ Len(t) = Cardinality(topo.all_nodes)
          /\ Range(t) = topo.all_nodes
          /\ \A i \in 1..(Len(t) - 1) :
                 \/ numa_distance(ref, t[i]) < numa_distance(ref, t[i + 1])
                 \/ /\ numa_distance(ref, t[i]) = numa_distance(ref, t[i + 1])
                    /\ t[i] < t[i + 1]

\* C11: on the machine with nodes 0 and 1 at distance 20 from each other and
\* the thread on node 1, the ranking table built by the initialisation is
\* [1, 0]; a zmalloc(100) under DistanceFirst that node 1 can satisfy is one
\* numa_alloc_onnode on node 1, and as the only live block it leaves
\* zmalloc_used_memory() at 100 + PREFIX_SIZE.
C11_ScenarioNearestFirst ==
    /\ numa_distance(0, 1) = 20 /\ numa_distance(1, 0) = 20
    /\ numa_distance(0, 0) = 0 /\ numa_distance(1, 1) = 0
    /\ (numa_initialized = 1 => sorted_nodes_by_distance = <<1, 0>>)
    /\ (/\ call.op = "zmalloc"
        /\ current_numa_policy = NUMA_POLICY_DISTANCE_FIRST
        /\ \A i \in 1..Len(call.attempts) :
               call.attempts[i].node = 1 => call.attempts[i].ok)
       => /\ call.attempts = << Attempt("numa_alloc_onnode", 1, TRUE) >>
          /\ heap[call.ret] = Block(ScenarioSize, "numa")
          /\ (Live(heap) = {call.ret}
                 => used_memory = ScenarioSize + PREFIX_SIZE)

C11_Witness ==
    /\ call.op = "zmalloc"
    /\ current_numa_policy = NUMA_POLICY_DISTANCE_FIRST
    /\ sorted_nodes_by_distance = <<1, 0>>
    /\ call.attempts = << Attempt("numa_alloc_onnode", 1, TRUE) >>
    /\ Live(heap) = {call.ret}
    /\ used_memory = ScenarioSize + PREFIX_SIZE

\* C12: a zrealloc(block, S2) or zrealloc_on_node(block, S2, node) of a live
\* block of payload size S that returns hands back a block whose first
\* min(S, S2) payload bytes are those the old block held before the call.
C12_ReallocPreservesPrefix ==
    [][ (/\ call'.op \in {"zrealloc", "zrealloc_on_node"}
         /\ call'.ptr # NULL
         /\ ~aborted')
        => \A i \in 1..Min(heap[call'.ptr].size, heap'[call'.ret].size) :
               payload'[call'.ret][i] = payload[call'.ptr][i] ]_vars

C12_Witness ==
    /\ call.op = "zrealloc_on_node"
    /\ call.ptr # NULL
    /\ ~aborted
    /\ heap[call.ret].size = MaxSize
    /\ \A i \in 1..MaxSize : payload[call.ret][i] = KnownByte(call.ptr, i)

\* C13: a zrealloc(NULL, size) does to the state exactly what zmalloc(size)
\* does, and zrealloc_on_node(NULL, size, node) what zmalloc_on_node(size,
\* node) does: the lazy initialisation, the attempts of zmalloc_internal for
\* that hint, then either the abort with nothing changed or one new block of
\* payload size `size`, used_memory up by size + PREFIX_SIZE, nothing freed.
C13_ReallocOfNullIsAllocate ==
    [][ (call'.op \in {"zrealloc", "zrealloc_on_node"} /\ call'.ptr = NULL)
        => \E size \in Sizes : \E ns \in lazy_init(topo, NumaNow) :
             /\ NumaNow' = ns
             /\ call'.node = (IF call'.op = "zrealloc" THEN -1 ELSE call'.node)
             /\ call'.attempts
                    \in AttemptSequences(ns, current_numa_policy, call'.node)
             /\ call'.released = << >>
             /\ aborted' = ~Succeeded(call'.attempts)
             /\ IF aborted'
                THEN /\ call'.ret = NULL
                     /\ UNCHANGED <<heap, used_memory, payload>>
                ELSE /\ call'.ret \in FreePtrs(heap)
                     /\ heap' = [heap EXCEPT ![call'.ret] =
                                     BlockOf(size, call'.attempts)]
                     /\ payload' = [payload EXCEPT ![call'.ret] = fresh(size)]
                     /\ used_memory' = used_memory + size + PREFIX_SIZE
             /\ UNCHANGED <<current_numa_policy, zmalloc_thread_safe, topo>> ]_vars

C13_Witness ==
    /\ call.op \in {"zrealloc", "zrealloc_on_node"}
    /\ call.ptr = NULL
    /\ call.ret # NULL
    /\ Live(heap) # {call.ret}

\* the machine offers no topology: numa_available() fails, or no node id
\* 0..numa_max_node() is in numa_all_nodes_ptr
TopologyUnavailable ==
    \/ topo.available # 0
    \/ topo.all_nodes \cap (0..topo.max_node) = {}

\* C14: on a machine without topology no call reaches a node-targeted
\* primitive, with or without a node hint, every release is by the generic
\* free, and zmalloc_get_current_numa_node() returns -1.
C14_NoTopologyMeansGenericOnly ==
    TopologyUnavailable
    => /\ \A i \in 1..Len(call.attempts) : Untargeted(call.attempts[i])
       /\ \A i \in 1..Len(call.released) : call.released[i].via = "free"
       /\ (call.op = "zmalloc_get_current_numa_node" => call.ret = -1)

C14_Witness ==
    /\ TopologyUnavailable
    /\ call.op = "zrealloc_on_node"
    /\ call.node >= 0
    /\ call.attempts = << Attempt("malloc", -1, TRUE) >>
    /\ call.released = << Release("malloc", "free") >>

\* the step is a zmalloc_set_numa_node(node) with node outside
\* [0, numa_max_node()]
InvalidNodeStep ==
    /\ call'.op = "zmalloc_set_numa_node"
    /\ (call'.node < 0 \/ call'.node > topo.max_node)

\* C15 as stated: a zmalloc_set_numa_node with a node outside
\* [0, numa_max_node()] is non-fatal and leaves the default node, the policy,
\* the ranking table, the usage counter and the live blocks unchanged.
C15_InvalidNodeChangesNothing ==
    [][ InvalidNodeStep
        => /\ ~aborted'
           /\ UNCHANGED <<default_numa_node, current_numa_policy,
                          sorted_nodes_by_distance, used_memory, heap>> ]_vars

\* C15, amended: such a call is non-fatal and leaves the policy, the usage
\* counter and the live blocks unchanged; the NUMA globals are unchanged when
\* the topology is initialised and otherwise become what the pending lazy
\* initialisation makes of them (table built, default node the nearest node).
C15_InvalidNodeOnlyInitialises ==
    [][ InvalidNodeStep
        => /\ ~aborted'
           /\ UNCHANGED <<current_numa_policy, used_memory, heap, payload,
                          zmalloc_thread_safe>>
           /\ NumaNow' \in lazy_init(topo, NumaNow)
           /\ (numa_initialized = 1 => NumaNow' = NumaNow) ]_vars

C15_Witness ==
    /\ call.op = "zmalloc_set_numa_node"
    /\ call.node > topo.max_node
    /\ topo.max_node >= 0
    /\ sorted_nodes_by_distance # << >>
    /\ default_numa_node = sorted_nodes_by_distance[1]
    /\ Live(heap) # {}

\* the last call went through zmalloc_internal
AllocationCall ==
    \/ call.op \in {"zmalloc", "zmalloc_on_node", "zrealloc_on_node"}
    \/ call.op = "zrealloc" /\ call.ptr = NULL

\* C16: under RoundRobin and under Balanced an allocation makes the attempts
\* it makes under Default: with no hint the default node if one is set, then
\* the untargeted malloc if that failed or none is set; the resulting block
\* and counter follow from the attempts alone.
C16_ReservedPoliciesAreDefault ==
    (/\ AllocationCall
     /\ current_numa_policy \in {NUMA_POLICY_ROUND_ROBIN, NUMA_POLICY_BALANCED})
    => /\ call.attempts \in AttemptSequences(NumaNow, NUMA_POLICY_DEFAULT, call.node)
       /\ (TopologyAvailable /\ call.node < 0
            => LET first == call.attempts[1]
               IN IF default_numa_node >= 0
                  THEN /\ first.prim = "numa_alloc_onnode"
                       /\ first.node = default_numa_node
                       /\ IF first.ok THEN Len(call.attempts) = 1
                          ELSE /\ Len(call.attempts) = 2
                               /\ call.attempts[2].prim = "malloc"
                  ELSE /\ Len(call.attempts) = 1
                       /\ first.prim = "malloc")
       /\ (~aborted => /\ heap[call.ret] = BlockOf(heap[call.ret].size, call.attempts)
                       /\ used_memory = SumOver(Live(heap), BlockBytes))

C16_Witness ==
    /\ call.op = "zmalloc"
    /\ current_numa_policy = NUMA_POLICY_ROUND_ROBIN
    /\ num_available_nodes > 1
    /\ default_numa_node = sorted_nodes_by_distance[2]
    /\ call.attempts = << Attempt("numa_alloc_onnode", default_numa_node, FALSE),
                          Attempt("malloc", -1, TRUE) >>

\* C18 as stated: the ranking table changes only by zmalloc_cleanup_numa or,
\* while the topology is not initialised, by an allocation call; no other
\* facade operation builds it.
C18_OnlyAllocationRebuilds ==
    [][ sorted_nodes_by_distance' # sorted_nodes_by_distance
        => \/ call'.op = "zmalloc_cleanup_numa"
           \/ numa_initialized = 0 /\ AllocationCall' ]_vars

\* C18, amended: once built the ranking table stays as it is until
\* zmalloc_cleanup_numa; it is built only while the topology is not
\* initialised, by the next call that starts with the lazy initialisation: an
\* allocation call, zmalloc_get_current_numa_node or zmalloc_set_numa_node.
C18_OnlyLazyInitRebuilds ==
    [][ sorted_nodes_by_distance' # sorted_nodes_by_distance
        => \/ call'.op = "zmalloc_cleanup_numa"
           \/ /\ numa_initialized = 0
              /\ \/ AllocationCall'
                 \/ call'.op \in {"zmalloc_get_current_numa_node",
                                  "zmalloc_set_numa_node"}
              /\ \E ns \in zmalloc_numa_init(topo, NumaNow) :
                     \/ NumaNow' = ns
                     \/ /\ call'.op = "zmalloc_set_numa_node"
                        /\ NumaNow' = [ns EXCEPT !.def = call'.node] ]_vars

C18_Witness ==
    /\ call.op = "zmalloc_get_current_numa_node"
    /\ numa_initialized = 1
    /\ sorted_nodes_by_distance # << >>
    /\ used_memory = 0
    /\ call.ret = sorted_nodes_by_distance[1]

\* C20: the header of a block records the payload size passed to the call
\* that produced it (an allocation call or a zrealloc of the block); the
\* recorded size of a block that stays live changes only in a zrealloc of that
\* very block, and no other operation changes it.
C20_HeaderRecordsRequestedSize ==
    [][ /\ (~aborted' /\ (AllocationCall' \/ call'.op = "zrealloc"))
           => heap'[call'.ret].size = call'.size
        /\ \A p \in Ptrs :
              (/\ heap[p] # NoBlock
               /\ heap'[p] # NoBlock
               /\ heap'[p].size # heap[p].size)
              => /\ call'.op = "zrealloc"
                 /\ call'.ptr = p
                 /\ call'.ret = p ]_vars

C20_Witness ==
    /\ call.op = "zrealloc"
    /\ call.ptr # NULL
    /\ ~aborted
    /\ heap[call.ret].size = call.size
    /\ \E p \in Live(heap) : heap[p].size # call.size

\* the threads between pthread_mutex_lock and pthread_mutex_unlock
InCriticalSection == {t \in Threads : pc[t] \in {"load", "store", "unlock"}}

\* C17: with thread safety enabled before the threads start, a thread reads or
\* writes used_memory only while it holds used_memory_mutex, so no adjustment
\* is lost: whenever every call has returned, used_memory is the sum over the
\* live blocks of (payload size + PREFIX_SIZE).
C17_AccountingUnderMutex ==
    zmalloc_thread_safe = 1
    => /\ \A t \in InCriticalSection : used_memory_mutex = t
       /\ ((~aborted /\ \A t \in Threads : pc[t] = "idle")
              => used_memory = SumOver(Live(heap), BlockBytes))

C17_Witness ==
    \E t \in Threads, u \in Threads :
        /\ pc[t] = "store" /\ local[t].op = "zrealloc"
        /\ pc[u] = "lock" /\ local[u].op = "zfree"
        /\ used_memory_mutex = t

\* C19: when several threads make their first facade call at the same time,
\* then once all of them have returned the ranking table, the node count, the
\* default node and the availability flag are those an initialisation by one
\* thread produces on this machine, and no undefined behaviour has occurred.
C19_ConcurrentInitAsSingle ==
    (\A t \in Threads : pc[t] = "done")
    => /\ ~arrays.corrupt
       /\ NumaNow \in zmalloc_numa_init(topo, NumaState(0, -1, 0, << >>, 0))

\* the default node is one no initialisation on this machine would choose, so
\* it is there because a zmalloc_set_numa_node installed it
InstalledBySetNode ==
    /\ default_numa_node >= 0
    /\ \A ns \in zmalloc_numa_init(topo, [NumaNow EXCEPT !.init = 0]) :
           ns.def # default_numa_node

\* C21: under Default, with the topology available and a default node n
\* installed by zmalloc_set_numa_node, every later zmalloc makes one
\* node-targeted attempt, on n, then the untargeted malloc if it failed.
C21_InstalledNodeSingleAttempt ==
    [][ (/\ call'.op = "zmalloc"
         /\ current_numa_policy = NUMA_POLICY_DEFAULT
         /\ TopologyAvailable
         /\ InstalledBySetNode)
        => LET a == call'.attempts
           IN /\ a[1] = Attempt("numa_alloc_onnode", default_numa_node, a[1].ok)
              /\ IF a[1].ok THEN Len(a) = 1
                 ELSE Len(a) = 2 /\ a[2].prim = "malloc" ]_vars

\* C22: with the topology available zmalloc_get_current_numa_node() returns
\* the node the calling thread runs on, the head of the ranking table,
\* whatever zmalloc_set_numa_node and zmalloc_set_numa_policy calls preceded.
C22_CurrentNodeIsNearest ==
    (call.op = "zmalloc_get_current_numa_node" /\ TopologyAvailable)
    => /\ call.ret = sorted_nodes_by_distance[1]
       /\ (topo.cpu_nodes \cap NodeIds # {} => call.ret \in topo.cpu_nodes)

\* neither sched_getcpu nor numa_node_of_cpu gives the thread a node
ThreadUnmapped == \A c \in topo.cpu_nodes : c < 0

\* C23: when the calling thread cannot be mapped to a node the ranking table
\* is built by distance from node 0 at every comparison: it holds the present
\* nodes in ascending distance from node 0.
C23_UnmappedRanksFromNode0 ==
    (ThreadUnmapped /\ numa_initialized = 1)
    => /\ Range(sorted_nodes_by_distance) = topo.all_nodes
       /\ Len(sorted_nodes_by_distance) = Cardinality(topo.all_nodes)
       /\ \A i \in 1..(Len(sorted_nodes_by_distance) - 1) :
              numa_distance(0, sorted_nodes_by_distance[i])
                  <= numa_distance(0, sorted_nodes_by_distance[i + 1])

\* a table of several nodes was built for a thread that has no node
C23_Witness ==
    /\ ThreadUnmapped
    /\ numa_initialized = 1
    /\ Len(sorted_nodes_by_distance) > 1
    /\ sorted_nodes_by_distance[1] = 0

\* the array sorted_nodes_by_distance points to has been passed to free()
InstalledArrayFreed ==
    arrays.sorted # NULL /\ arrays.mem[arrays.sorted].freed

\* C24: in every interleaving of the threads' first-use initialisations no
\* thread sorts, reads or frees a ranking array that has already been freed,
\* and num_available_nodes never exceeds the length of the installed array.
C24_RankingArraySafe ==
    [][ /\ \A t \in Threads :
             /\ (pc[t] = "free_old" /\ pc'[t] = "malloc_array")
                    => ~InstalledArrayFreed
             /\ (pc[t] = "qsort" /\ pc'[t] = "after_sort"
                    /\ num_available_nodes > 0) => ~InstalledArrayFreed
             /\ (pc[t] = "after_sort" /\ pc'[t] = "set_initialized"
                    /\ num_available_nodes > 0) => ~InstalledArrayFreed
        /\ arrays'.sorted # NULL
              => num_available_nodes' <= Len(arrays'.mem[arrays'.sorted].cells)
      ]_vars

\* C25: a default node installed by zmalloc_set_numa_node stays the default
\* node until the next successful zmalloc_set_numa_node, through
\* zmalloc_cleanup_numa and the lazy re-initialisation too.
C25_InstalledDefaultPersists ==
    [][ (InstalledBySetNode /\ default_numa_node' # default_numa_node)
        => /\ call'.op = "zmalloc_set_numa_node"
           /\ call'.node = default_numa_node' ]_vars

\* C26: zmalloc_cleanup_numa empties the ranking table, zeroes the node count
\* and clears the initialised flag, and leaves used_memory, the thread-safety
\* flag, the policy and every live block with its header and bytes as they
\* were; a block can be freed or reallocated after it, used_memory moving by
\* its recorded size + PREFIX_SIZE.
C26_CleanupTouchesTopologyOnly ==
    [][ /\ call'.op = "zmalloc_cleanup_numa"
           => /\ sorted_nodes_by_distance' = << >>
              /\ num_available_nodes' = 0
              /\ numa_initialized' = 0
              /\ UNCHANGED <<used_memory, zmalloc_thread_safe,
                             current_numa_policy, heap, payload>>
        /\ (call.op = "zmalloc_cleanup_numa" /\ call'.op = "zfree"
               /\ call'.ptr \in Live(heap))
           => /\ call'.ptr \notin Live(heap')
              /\ used_memory' =
                     used_memory - (heap[call'.ptr].size + PREFIX_SIZE)
        /\ (call.op = "zmalloc_cleanup_numa" /\ call'.op = "zrealloc"
               /\ call'.ptr \in Live(heap) /\ ~aborted')
           => /\ heap'[call'.ptr].size = call'.size
              /\ used_memory' =
                     used_memory - (heap[call'.ptr].size + PREFIX_SIZE)
                                 + (call'.size + PREFIX_SIZE)
      ]_vars

\* a block allocated before zmalloc_cleanup_numa was freed after it, with the
\* subsystem still uninitialised and another block still live
C26_Witness ==
    /\ numa_initialized = 0
    /\ call.op = "zfree"
    /\ call.ptr # NULL
    /\ call.released # << >>
    /\ Live(heap) # {}
    /\ used_memory > 0

\* C27: with thread safety enabled used_memory_mutex is held only between the
\* lock and the unlock of one accounting macro (not across an allocation or
\* release primitive, not on the fatal path), is released by the thread and
\* call that took it, is free whenever every call has returned, and under fair
\* scheduling every call in progress eventually returns or the process aborts.
C27_MutexReleasedCallsReturn ==
    /\ [](\A t \in Threads : used_memory_mutex = t => t \in InCriticalSection)
    /\ []((\A t \in Threads : pc[t] = "idle") => used_memory_mutex = NoThread)
    /\ [][ \A t \in Threads :
              /\ (used_memory_mutex # t /\ used_memory_mutex' = t)
                     => (used_memory_mutex = NoThread
                         /\ pc[t] = "lock" /\ pc'[t] = "load")
              /\ (used_memory_mutex = t /\ used_memory_mutex' # t)
                     => (used_memory_mutex' = NoThread
                         /\ pc[t] = "unlock" /\ pc'[t] # "unlock") ]_vars
    /\ \A t \in Threads :
          (used_memory_mutex = t) ~> (used_memory_mutex = NoThread \/ aborted)
    /\ \A t \in Threads : (pc[t] # "idle") ~> (pc[t] = "idle" \/ aborted)

\* a thread waits in pthread_mutex_lock while another, at the end of its
\* critical section, is about to release the mutex
C27_Witness ==
    \E t \in Threads, u \in Threads :
        /\ pc[t] = "lock" /\ local[t].op = "zmalloc_used_memory"
        /\ pc[u] = "unlock" /\ local[u].op = "zmalloc"
        /\ used_memory_mutex = u
====
